---- MODULE Spec2Model ----
(***************************************************************************)
(* A model of download_pre_v1_data.py: key resolution, metadata lookup,    *)
(* nearest-calibration-frame search, the restore sweep (thaw_files), the   *)
(* restore waiter (wait_for_files_to_thaw), the downloader and the script  *)
(* body.  Each behaviour is one call of one function of the script (or one *)
(* run of the script body) on inputs drawn from bounded sets; the external *)
(* services (S3, OpenSearch, the local file system) are the environment.   *)
(* Text is modelled by TLA+ strings, on which Len, SubSeq and \o act       *)
(* character by character.                                                 *)
(***************************************************************************)
EXTENDS Integers, Sequences, FiniteSets, TLC

VARIABLES
    call,              \* the function being run
    pc,                \* the position in it
    arg,               \* the call: its arguments, and the objects' states when it was made
    object_keys,       \* the key collection, in its iteration order
    idx,               \* position of the running for-loop in object_keys
    dead_references,   \* thaw_files: keys found not to exist
    restored_objects,  \* wait_for_files_to_thaw: keys seen restored
    storage,           \* S3: the state of each object
    index,             \* OpenSearch: the header records, in index order
    log,               \* the requests made to S3/OpenSearch/the file system
    slept,             \* wait_for_files_to_thaw: time.sleep was called
    polled,            \* wait_for_files_to_thaw: the key head_object just got
    reported,          \* wait_for_files_to_thaw: the count last printed
    date_obs_string,   \* parse_date_obs: the local it pads
    result             \* what the call returned

vars == <<call, pc, arg, object_keys, idx, dead_references, restored_objects,
          storage, index, log, slept, polled, reported, date_obs_string, result>>

\* Python's None, and a value that is not None.
None == <<>>
Some(v) == <<v>>

Range(s) == {s[n] : n \in 1..Len(s)}

----------------------------------------------------------------------------
(* Bounds of the model. *)

\* Frames of the frame list, and so keys of a key collection.
MaxFrames == 3
\* Longest run of fractional-second digits a DATE-OBS carries.
MaxFracDigits == 7
\* Largest n_frames asked of the calibration search.
MaxNFrames == 2

----------------------------------------------------------------------------
(* Python's str operations. *)

\* s[i:], 0-based
StrFrom(s, i) == SubSeq(s, i + 1, Len(s))

\* s.startswith(sub)
StartsWith(s, sub) == Len(sub) <= Len(s) /\ SubSeq(s, 1, Len(sub)) = sub

\* The positions (1-based) at which sub occurs in s.
Occurrences(s, sub) == {n \in 1..(Len(s) - Len(sub) + 1) : SubSeq(s, n, n + Len(sub) - 1) = sub}

\* sub in s
Contains(sub, s) == Occurrences(s, sub) # {}

\* s.find(sub) + 1: the first position of sub in s, 0 when there is none
Find(s, sub) ==
    LET at == Occurrences(s, sub)
    IN  IF at = {} THEN 0 ELSE CHOOSE n \in at : \A m \in at : n <= m

\* s.replace(old, new): every occurrence, leftmost first, not overlapping
RECURSIVE Replace(_, _, _)
Replace(s, old, new) ==
    LET n == Find(s, old)
    IN  IF n = 0 THEN s
        ELSE SubSeq(s, 1, n - 1) \o new \o Replace(StrFrom(s, n + Len(old) - 1), old, new)

\* s.split(sep)
RECURSIVE Split(_, _)
Split(s, sep) ==
    LET n == Find(s, sep)
    IN  IF n = 0 THEN <<s>>
        ELSE <<SubSeq(s, 1, n - 1)>> \o Split(StrFrom(s, n + Len(sep) - 1), sep)

\* n * '0', empty when n <= 0
RECURSIVE Zeros(_)
Zeros(n) == IF n <= 0 THEN "" ELSE "0" \o Zeros(n - 1)

EndsWith(s, sub) == Len(sub) <= Len(s) /\ SubSeq(s, Len(s) - Len(sub) + 1, Len(s)) = sub

DigitChars == <<"0", "1", "2", "3", "4", "5", "6", "7", "8", "9">>

IsDigit(c) == \E d \in 1..10 : DigitChars[d] = c

AllDigits(s) == \A n \in 1..Len(s) : IsDigit(SubSeq(s, n, n))

DigitValue(c) == (CHOOSE d \in 1..10 : DigitChars[d] = c) - 1

\* int(s) of a digit string
RECURSIVE ToInt(_)
ToInt(s) ==
    IF Len(s) = 0 THEN 0
    ELSE 10 * ToInt(SubSeq(s, 1, Len(s) - 1)) + DigitValue(SubSeq(s, Len(s), Len(s)))

\* n formatted in `width` digits, zero padded (%02d, %06d, ...)
RECURSIVE ZeroPad(_, _)
ZeroPad(n, width) ==
    IF width = 0 THEN "" ELSE ZeroPad(n \div 10, width - 1) \o DigitChars[(n % 10) + 1]

RECURSIVE Pow10(_)
Pow10(n) == IF n = 0 THEN 1 ELSE 10 * Pow10(n - 1)

----------------------------------------------------------------------------
(* make_s3_prefix_from_filename *)

\* A normalization that only appends the compression suffix (mutant).
compressed_filename_AppendOnly(filename) == Replace(filename, ".fits", ".fits.fz")

\* filename.replace('.fits.fz', '.fits').replace('.fits', '.fits.fz')
compressed_filename(filename) ==
    Replace(Replace(filename, ".fits.fz", ".fits"), ".fits", ".fits.fz")

\* The key of a frame under the standard layout; "IndexError" when the name has
\* fewer than three hyphen-delimited segments.
make_s3_prefix_from_filename(filename) ==
    LET segments == Split(filename, "-")
        site == SubSeq(filename, 1, IF Len(filename) < 3 THEN Len(filename) ELSE 3)
    IN  IF Len(segments) < 3 THEN [raised |-> "IndexError"]
        ELSE [value |-> site \o "/" \o segments[2] \o "/" \o segments[3]
                        \o "/raw/" \o compressed_filename(filename)]

\* Frame names of the standard layout: {site}{telescope}-{instrument}-{dayobs}-{number}-{suffix}
Sites == {"coj0m405", "lsc1m005"}
Instruments == {"kb24"}
DayObs == {"20200101"}
FrameSuffixes == {"00", "02"}

FrameNumber(n) == ZeroPad(n, 4)

Stems ==
    {site \o "-" \o ins \o "-" \o day \o "-" \o FrameNumber(n) \o "-" \o suffix :
        site \in Sites, ins \in Instruments, day \in DayObs,
        n \in 1..MaxFrames, suffix \in FrameSuffixes}

\* Names that predate the layout: no hyphen-delimited segments.
LegacyStems == {"image0001"}

----------------------------------------------------------------------------
(* parse_date_obs *)

\* The digits '%f' takes: one to six.
MicrosecondDigits == 6

ValueError == [raised |-> "ValueError"]

\* A field of one or two digits within lo..hi ('%m', '%d', '%H', '%M', '%S').
IsField(text, lo, hi) == Len(text) \in 1..2 /\ AllDigits(text) /\ ToInt(text) \in lo..hi

DateOf(f) ==
    IF /\ Len(f) = 3
       /\ Len(f[1]) = 4 /\ AllDigits(f[1])
       /\ IsField(f[2], 1, 12)
       /\ IsField(f[3], 1, 31)
    THEN [value |-> [year |-> ToInt(f[1]), month |-> ToInt(f[2]), day |-> ToInt(f[3]),
                     hour |-> 0, minute |-> 0, second |-> 0, microsecond |-> 0]]
    ELSE ValueError

\* datetime.datetime.strptime(s, '%Y-%m-%d'): the fields, or ValueError
StrptimeDate(s) == DateOf(Split(s, "-"))

TimeOf(d, t, fraction) ==
    IF /\ "value" \in DOMAIN d
       /\ Len(t) = 3
       /\ IsField(t[1], 0, 23) /\ IsField(t[2], 0, 59) /\ IsField(t[3], 0, 61)
       /\ Len(fraction) \in 1..MicrosecondDigits /\ AllDigits(fraction)
    THEN [value |-> [d.value EXCEPT !.hour = ToInt(t[1]), !.minute = ToInt(t[2]),
                                    !.second = ToInt(t[3]),
                                    !.microsecond = ToInt(fraction)
                                        * Pow10(MicrosecondDigits - Len(fraction))]]
    ELSE ValueError

ClockOf(d, tf) ==
    IF Len(tf) = 2 THEN TimeOf(d, Split(tf[1], ":"), tf[2]) ELSE ValueError

DateTimeOf(dt) ==
    IF Len(dt) = 2 THEN ClockOf(StrptimeDate(dt[1]), Split(dt[2], ".")) ELSE ValueError

\* datetime.datetime.strptime(s, '%Y-%m-%dT%H:%M:%S.%f'): the fields, or ValueError
StrptimeDateTime(s) == DateTimeOf(Split(s, "T"))

\* A padding that forgets the branch on the fractional part (mutant).
PadFractionalSeconds_AlwaysAppend(s) == s \o ".000000"

\* The padding of date_obs_string: what reaches strptime.
PadFractionalSeconds(s) ==
    LET date_fractional_seconds_list == Split(s, ".")
    IN  IF Len(date_fractional_seconds_list) > 1
        THEN s \o Zeros(MicrosecondDigits
                        - Len(date_fractional_seconds_list[Len(date_fractional_seconds_list)]))
        ELSE s \o ".000000"

\* The datetime a strptime made, or what it raised.
Returned(r) == IF "value" \in DOMAIN r THEN [value |-> Some(r.value)] ELSE r

\* parse_date_obs as a whole (used by get_nearest_calibration_frames)
parse_date_obs(s) ==
    IF s = "N/A" THEN [value |-> None]
    ELSE IF ~Contains("T", s) THEN Returned(StrptimeDate(s))
    ELSE Returned(StrptimeDateTime(PadFractionalSeconds(s)))

FracAlphabet == {"0", "5"}

RECURSIVE FracsOfLen(_)
FracsOfLen(n) ==
    IF n = 0 THEN {""} ELSE {f \o c : f \in FracsOfLen(n - 1), c \in FracAlphabet}

FracStrings == UNION {FracsOfLen(n) : n \in 0..MaxFracDigits}

Dates == {"2020-01-01"}
Times == {"10:30:00"}

DateObsInputs ==
    {"N/A"} \cup Dates
    \cup {d \o "T" \o t : d \in Dates, t \in Times}
    \cup {d \o "T" \o t \o "." \o f : d \in Dates, t \in Times, f \in FracStrings}

----------------------------------------------------------------------------
(* The OpenSearch index, as the queries of the script see it. *)

\* The standard analyzer: text is cut into tokens at the characters that are
\* neither letters nor digits.
TokenSeparators == {"-", ".", "/", " ", "_", ":"}

RECURSIVE Tokens(_)
Tokens(s) ==
    LET cuts == {n \in 1..Len(s) : SubSeq(s, n, n) \in TokenSeparators}
        n == IF cuts = {} THEN 0 ELSE CHOOSE c \in cuts : \A m \in cuts : c <= m
    IN  IF n = 0 THEN (IF s = "" THEN <<>> ELSE <<s>>)
        ELSE (IF n = 1 THEN <<>> ELSE <<SubSeq(s, 1, n - 1)>>) \o Tokens(StrFrom(s, n))

\* match_phrase: the tokens of the phrase occur in the field, adjacent and in order.
MatchPhrase(field, phrase) ==
    LET f == Tokens(field)
        q == Tokens(phrase)
    IN  /\ Len(q) > 0
        /\ \E n \in 0..(Len(f) - Len(q)) : SubSeq(f, n + 1, n + Len(q)) = q

Header(filename, obstype, siteid, instrume, filter, date_obs) ==
    [filename |-> filename, OBSTYPE |-> obstype, SITEID |-> siteid, INSTRUME |-> instrume,
     FILTER |-> filter, DATE_OBS |-> date_obs]

\* The header records the index may hold, in index order: two science frames
\* (one without a DATE-OBS), and calibration frames that differ from the first
\* science frame in one header each, or not at all.
IndexPool ==
    << Header("coj0m405-kb24-20200101-0001-00.fits", "EXPOSE", "coj", "kb24", "V",
              "2020-01-01T10:30:00.5"),
       Header("coj0m405-kb24-20200101-0007-00.fits", "EXPOSE", "coj", "kb24", "V", "N/A"),
       Header("coj0m405-kb24-20200101-0005-00.fits", "BIAS", "coj", "kb24", "R",
              "2020-01-01T11:00:00"),
       Header("coj0m405-kb24-20200101-0002-00.fits", "SKYFLAT", "coj", "kb24", "V",
              "2020-01-01T09:30:00"),
       Header("coj0m405-kb24-20200101-0008-00.fits", "SKYFLAT", "coj", "kb24", "V",
              "2020-01-01T10:45:00"),
       Header("coj0m405-kb24-20200101-0003-00.fits", "SKYFLAT", "coj", "kb24", "R",
              "2020-01-01T10:00:00.25"),
       Header("lsc1m005-kb24-20200101-0001-00.fits", "SKYFLAT", "lsc", "kb24", "V",
              "2020-01-01"),
       Header("coj0m405-fl03-20200101-0006-00.fits", "SKYFLAT", "coj", "fl03", "V",
              "2020-01-01T10:31:00"),
       Header("coj0m405-kb24-20200101-0004-02.fits", "SKYFLAT", "coj", "kb24", "V",
              "2020-01-01T10:29:00.123456") >>

\* The records every index of the model holds; the others are there or not.
AlwaysIndexed == 1..3

\* The records of the pool at the positions `keep`, in pool order.
RECURSIVE IndexOf(_, _)
IndexOf(keep, n) ==
    IF n > Len(IndexPool) THEN <<>>
    ELSE (IF n \in keep THEN <<IndexPool[n]>> ELSE <<>>) \o IndexOf(keep, n + 1)

\* Milliseconds into the month of a timestamp (the records of the pool share
\* year and month).
MillisOf(dt) ==
    (((dt.day * 24 + dt.hour) * 60 + dt.minute) * 60 + dt.second) * 1000
        + dt.microsecond \div 1000

Abs(n) == IF n < 0 THEN 0 - n ELSE n

\* The index's reading of a timestamp: a stored DATE-OBS, or an origin "...UTC".
IndexMillis(text) ==
    MillisOf(parse_date_obs(IF EndsWith(text, "UTC")
                            THEN SubSeq(text, 1, Len(text) - 3) ELSE text).value[1])

\* The hits of `must`, a list of [field, phrase] clauses, all of which hold.
Matches(rec, must) == \A n \in 1..Len(must) : MatchPhrase(rec[must[n].field], must[n].phrase)

\* How far each hit lies from `origin`, in milliseconds.
Distances(recs, hit, origin) == [n \in hit |-> Abs(IndexMillis(recs[n].DATE_OBS) - origin)]

\* The position of the best remaining hit: nearest to the origin (the linear decay
\* falls with the distance), the earlier one in the index on a tie.
Best(dist, left) ==
    CHOOSE n \in left :
        \A m \in left : dist[n] < dist[m] \/ (dist[n] = dist[m] /\ n <= m)

RECURSIVE Ranked(_, _, _, _)
Ranked(recs, dist, left, size) ==
    IF left = {} \/ size <= 0 THEN <<>>
    ELSE <<recs[Best(dist, left)]>>
         \o Ranked(recs, dist, left \ {Best(dist, left)}, size - 1)

\* search_host.search(index=..., body=query): the ranked hits.  A query is
\* [must, origin, size]; origin None asks for no function score, and the hits
\* come in index order.
Search(recs, query) ==
    IF query.origin = None
    THEN SelectSeq(recs, LAMBDA rec : Matches(rec, query.must))
    ELSE Ranked(recs,
                Distances(recs, {n \in 1..Len(recs) : Matches(recs[n], query.must)},
                          IndexMillis(query.origin[1])),
                {n \in 1..Len(recs) : Matches(recs[n], query.must)},
                query.size)

\* filename.replace('.fits', '').replace('.fz', '')
ScrubbedFilename(filename) == Replace(Replace(filename, ".fits", ""), ".fz", "")

MetadataQuery(filename) ==
    [must |-> <<[field |-> "filename", phrase |-> ScrubbedFilename(filename)]>>,
     origin |-> None, size |-> 10]

\* The first hit's record, or None.
FirstHit(hits) == IF Len(hits) = 0 THEN None ELSE Some(hits[1])

get_frame_metadata(filename, recs) == FirstHit(Search(recs, MetadataQuery(filename)))

\* The filters without the SKYFLAT clause (mutant).
match_filters_NoFilterClause(obstype, frame_metadata) ==
    <<[field |-> "OBSTYPE", phrase |-> obstype],
      [field |-> "SITEID", phrase |-> frame_metadata.SITEID],
      [field |-> "INSTRUME", phrase |-> frame_metadata.INSTRUME]>>

match_filters(obstype, frame_metadata) ==
    <<[field |-> "OBSTYPE", phrase |-> obstype],
      [field |-> "SITEID", phrase |-> frame_metadata.SITEID],
      [field |-> "INSTRUME", phrase |-> frame_metadata.INSTRUME]>>
    \o (IF obstype = "SKYFLAT"
        THEN <<[field |-> "FILTER", phrase |-> frame_metadata.FILTER]>>
        ELSE <<>>)

\* dt.strftime('%Y-%m-%dT%H:%M:%S.%f')
Strftime(dt) ==
    ZeroPad(dt.year, 4) \o "-" \o ZeroPad(dt.month, 2) \o "-" \o ZeroPad(dt.day, 2)
    \o "T" \o ZeroPad(dt.hour, 2) \o ":" \o ZeroPad(dt.minute, 2) \o ":"
    \o ZeroPad(dt.second, 2) \o "." \o ZeroPad(dt.microsecond, MicrosecondDigits)

\* f"{...[:-3]}UTC"
DropLast3(text) == SubSeq(text, 1, Len(text) - 3)

input_date_obs(dt) == DropLast3(Strftime(dt)) \o "UTC"

RelevanceQuery(obstype, n_frames, frame_metadata, dt) ==
    [must |-> match_filters(obstype, frame_metadata),
     origin |-> Some(input_date_obs(dt)), size |-> n_frames]

\* The hits kept: those whose filename contains '00.fits'.
KeptHits(hits) == SelectSeq(hits, LAMBDA rec : Contains("00.fits", rec.filename))

----------------------------------------------------------------------------
(* S3 *)

\* An object is absent, in cold storage with no restore asked, being restored,
\* or restored.
Status == {"missing", "archived", "pending", "restored"}

\* What restore_object answers for an object in state st: "ok" or an error code.
RestoreOutcome(st) ==
    CASE st = "missing" -> "NoSuchKey"
      [] st = "pending" -> "RestoreAlreadyInProgress"
      [] OTHER -> "ok"

\* Failures restore_object may end in whatever the object's state.
OtherFailures == {"AccessDenied"}

\* str(sys.exc_info()) of the ClientError botocore raises for an error code.
ExcInfoText(code) ==
    "(<class 'botocore.exceptions.ClientError'>, ClientError('An error occurred ("
    \o code \o ") when calling the RestoreObject operation'), <traceback object>)"

\* A handler that also swallows the errors it does not know (mutant).
Handling_SwallowAll(exc_text) ==
    IF Contains("NoSuchKey", exc_text) THEN "dead" ELSE "ignore"

\* The except clause of thaw_files: what it does with the exception.
Handling(exc_text) ==
    IF Contains("NoSuchKey", exc_text) THEN "dead"
    ELSE IF ~Contains("RestoreAlreadyInProgress", exc_text) THEN "raise"
    ELSE "ignore"

\* The response of head_object for an object in state st.
HeadObject(st) ==
    CASE st = "pending" -> [ContentLength |-> "1", Restore |-> "ongoing-request=\"true\""]
      [] st = "restored" ->
            [ContentLength |-> "1",
             Restore |-> "ongoing-request=\"false\", expiry-date=\"Thu, 02 Jan 2020 00:00:00 GMT\""]
      [] OTHER -> [ContentLength |-> "1"]

\* A test that takes any Restore header for a finished restore (mutant).
IsRestored_AnyRestoreHeader(response) == "Restore" \in DOMAIN response

\* 'Restore' in response and 'ongoing-request="false"' in response['Restore']
IsRestored(response) ==
    /\ "Restore" \in DOMAIN response
    /\ Contains("ongoing-request=\"false\"", response.Restore)

\* os.path.join(base_dir, path), on a relative path
PathJoin(base_dir, path) == IF path = "" THEN base_dir \o "/" ELSE base_dir \o "/" \o path

\* The last position of sub in s, 0 when there is none.
LastOccurrence(s, sub) ==
    IF Occurrences(s, sub) = {} THEN 0
    ELSE CHOOSE n \in Occurrences(s, sub) : \A m \in Occurrences(s, sub) : m <= n

\* os.path.dirname(path), on a relative path without a doubled slash
Dirname(path) == SubSeq(path, 1, LastOccurrence(path, "/") - 1)

\* os.path.basename(path)
Basename(path) == StrFrom(path, LastOccurrence(path, "/"))

\* The frames of the frame list and their keys under the standard layout.
FrameName(n) == "coj0m405-kb24-20200101-" \o FrameNumber(n) \o "-00.fits"

FrameKey(n) == make_s3_prefix_from_filename(FrameName(n)).value

FrameNames == {FrameName(n) : n \in 1..MaxFrames}
FrameKeys == {FrameKey(n) : n \in 1..MaxFrames}
KeyUniverse == FrameKeys \cup FrameNames

\* Key collections up to the naming of the keys: the keys come in the order of
\* their first occurrence.
RECURSIVE KeyLists(_)
KeyLists(len) ==
    IF len = 0 THEN {<<>>}
    ELSE LET shorter == KeyLists(len - 1)
         IN  shorter \cup
             {Append(l, FrameKey(n)) :
                l \in {x \in shorter : Len(x) = len - 1},
                n \in 1..MaxFrames}

FirstOccurrenceOrdered(l) ==
    \A n \in 1..MaxFrames :
        (\E p \in 1..Len(l) : l[p] = FrameKey(n)) =>
            \A m \in 1..(n - 1) :
                \E q \in 1..Len(l) :
                    /\ l[q] = FrameKey(m)
                    /\ \A p \in 1..Len(l) : l[p] = FrameKey(n) => q < p

NoRepeats(l) == \A p, q \in 1..Len(l) : l[p] = l[q] => p = q

\* Lists of keys (a key may repeat), and sets of keys in their iteration order.
KeyListInputs == {l \in KeyLists(MaxFrames) : FirstOccurrenceOrdered(l)}
KeySetInputs == {l \in KeyListInputs : NoRepeats(l)}

StorageInputs(keys) ==
    {[k \in KeyUniverse |-> IF k \in DOMAIN st THEN st[k] ELSE "missing"] :
        st \in [Range(keys) -> Status]}

----------------------------------------------------------------------------
(* The state at the call. *)

NoStorage == [k \in KeyUniverse |-> "missing"]

Idle ==
    /\ dead_references = <<>>
    /\ restored_objects = <<>>
    /\ log = <<>>
    /\ slept = FALSE
    /\ polled = None
    /\ reported = None
    /\ date_obs_string = ""
    /\ result = None

InitPrefix ==
    /\ call = "prefix" /\ pc = "start"
    /\ arg \in [stem : Stems \cup LegacyStems]
    /\ object_keys = <<>> /\ idx = 0 /\ storage = NoStorage /\ index = <<>>
    /\ Idle

InitDate ==
    /\ call = "date" /\ pc = "start"
    /\ arg \in [date_obs_string : DateObsInputs]
    /\ object_keys = <<>> /\ idx = 0 /\ storage = NoStorage /\ index = <<>>
    /\ Idle

\* The frame asked about: the first science frame under its three names, the
\* one without DATE-OBS, and one the index does not hold.
CalibFilenames ==
    {"coj0m405-kb24-20200101-0001-00", "coj0m405-kb24-20200101-0001-00.fits.fz",
     "coj0m405-kb24-20200101-0007-00.fits", "coj0m405-kb24-20200101-0009-00.fits"}

InitCalib ==
    /\ call = "calib" /\ pc = "start"
    /\ arg \in [obstype : {"SKYFLAT", "BIAS"}, n_frames : 0..MaxNFrames,
                filename : CalibFilenames]
    /\ \E keep \in SUBSET ((1..Len(IndexPool)) \ AlwaysIndexed) :
          index = IndexOf(keep \cup AlwaysIndexed, 1)
    /\ object_keys = <<>> /\ idx = 0 /\ storage = NoStorage
    /\ Idle

InitThaw ==
    /\ call = "thaw" /\ pc = "sweep"
    /\ object_keys \in KeySetInputs
    /\ storage \in StorageInputs(object_keys)
    /\ arg = [object_keys |-> object_keys, thaw_mode |-> "Standard", at_call |-> storage]
    /\ idx = 1 /\ index = <<>>
    /\ Idle

InitWait ==
    /\ call = "wait" /\ pc = "while"
    /\ object_keys \in KeyListInputs
    /\ storage \in StorageInputs(object_keys)
    /\ arg = [object_keys |-> object_keys, at_call |-> storage]
    /\ idx = 0 /\ index = <<>>
    /\ Idle

InitDownload ==
    /\ call = "download" /\ pc = "makedirs"
    /\ object_keys \in KeyListInputs
    /\ storage \in StorageInputs(object_keys)
    /\ arg = [object_keys |-> object_keys, base_dir |-> "out", at_call |-> storage]
    /\ idx = 1 /\ index = <<>>
    /\ Idle

\* The frame lists: the first frames of the night, as .fits names.
RECURSIVE FrameList(_)
FrameList(n) == IF n = 0 THEN <<>> ELSE Append(FrameList(n - 1), FrameName(n))

\* The script body: the frames lie in cold storage under their keys, and no
\* object is named by a bare filename.
InitMain ==
    /\ call = "main" /\ pc = "main"
    /\ \E n \in 0..MaxFrames : arg = [files_to_restore |-> FrameList(n), output_dir |-> "out"]
    /\ storage = [k \in KeyUniverse |-> IF k \in FrameKeys THEN "archived" ELSE "missing"]
    /\ object_keys = <<>> /\ idx = 0 /\ index = <<>>
    /\ Idle

Init ==
    \/ InitPrefix
    \/ InitDate
    \/ InitCalib
    \/ InitThaw
    \/ InitWait
    \/ InitDownload
    \/ InitMain

----------------------------------------------------------------------------
(* make_s3_prefix_from_filename, called on both forms of a name and on the name *)
(* it produced.                                                                 *)

PrefixInputs(stem) == <<stem \o ".fits", stem \o ".fits.fz">>

Others == <<object_keys, idx, dead_references, restored_objects, storage, index,
            slept, polled, reported, date_obs_string>>

\* The calls on stem.fits and stem.fits.fz, then on the name the first call made.
PrefixCall ==
    /\ call = "prefix" /\ pc = "start"
    /\ LET r1 == make_s3_prefix_from_filename(PrefixInputs(arg.stem)[1])
           r2 == make_s3_prefix_from_filename(PrefixInputs(arg.stem)[2])
       IN  /\ "value" \in DOMAIN r1 /\ "value" \in DOMAIN r2
           /\ result' = Some([fits |-> r1.value, fz |-> r2.value,
                              again |-> compressed_filename(Basename(r1.value))])
    /\ pc' = "returned"
    /\ UNCHANGED <<call, arg, log, Others>>

PrefixRaises ==
    /\ call = "prefix" /\ pc = "start"
    /\ "raised" \in DOMAIN make_s3_prefix_from_filename(PrefixInputs(arg.stem)[1])
    /\ pc' = "raised"
    /\ UNCHANGED <<call, arg, log, result, Others>>

----------------------------------------------------------------------------
(* parse_date_obs *)

DateNotApplicable ==
    /\ call = "date" /\ pc = "start"
    /\ arg.date_obs_string = "N/A"
    /\ result' = None
    /\ pc' = "returned"
    /\ UNCHANGED <<call, arg, log, Others>>

DateOnly ==
    /\ call = "date" /\ pc = "start"
    /\ arg.date_obs_string # "N/A"
    /\ ~Contains("T", arg.date_obs_string)
    /\ LET r == StrptimeDate(arg.date_obs_string)
       IN  /\ "value" \in DOMAIN r
           /\ result' = Some(r.value)
    /\ pc' = "returned"
    /\ UNCHANGED <<call, arg, log, Others>>

DatePad ==
    /\ call = "date" /\ pc = "start"
    /\ arg.date_obs_string # "N/A"
    /\ Contains("T", arg.date_obs_string)
    /\ date_obs_string' = PadFractionalSeconds(arg.date_obs_string)
    /\ pc' = "strptime"
    /\ UNCHANGED <<call, arg, log, result, object_keys, idx, dead_references,
                   restored_objects, storage, index, slept, polled, reported>>

DateParse ==
    /\ call = "date" /\ pc = "strptime"
    /\ LET r == StrptimeDateTime(date_obs_string)
       IN  /\ "value" \in DOMAIN r
           /\ result' = Some(r.value)
    /\ pc' = "returned"
    /\ UNCHANGED <<call, arg, log, Others>>

DateParseRaises ==
    /\ call = "date" /\ pc = "strptime"
    /\ "raised" \in DOMAIN StrptimeDateTime(date_obs_string)
    /\ pc' = "raised"
    /\ UNCHANGED <<call, arg, log, result, Others>>

----------------------------------------------------------------------------
(* get_nearest_calibration_frames *)

Searched(query, hits) == [op |-> "search", query |-> query, hits |-> hits]

\* The metadata lookup: the query goes out, and the first hit (if any) is kept.
Lookup(query, hits) ==
    /\ log' = Append(log, Searched(query, hits))
    /\ IF Len(hits) = 0
       THEN result' = Some(<<>>) /\ pc' = "returned"
       ELSE result' = result /\ pc' = "query"

\* The metadata lookup finds nothing: the empty list.
CalibNoMetadata ==
    /\ call = "calib" /\ pc = "start"
    /\ get_frame_metadata(arg.filename, index) = None
    /\ Lookup(MetadataQuery(arg.filename), Search(index, MetadataQuery(arg.filename)))
    /\ UNCHANGED <<call, arg, Others>>

CalibMetadata ==
    /\ call = "calib" /\ pc = "start"
    /\ get_frame_metadata(arg.filename, index) # None
    /\ Lookup(MetadataQuery(arg.filename), Search(index, MetadataQuery(arg.filename)))
    /\ UNCHANGED <<call, arg, Others>>

\* The record the lookup kept.
frame_metadata == log[1].hits[1]

\* Whether parse_date_obs gave a datetime.
HasDate(parsed) == "value" \in DOMAIN parsed /\ parsed.value # None

\* DATE-OBS is 'N/A': parse_date_obs gives None, and None has no strftime.
CalibDateRaises ==
    /\ call = "calib" /\ pc = "query"
    /\ ~HasDate(parse_date_obs(frame_metadata.DATE_OBS))
    /\ pc' = "raised"
    /\ UNCHANGED <<call, arg, log, result, Others>>

\* The keys of the hits kept, in the order of the hits.
KeysOf(filenames) ==
    [n \in 1..Len(filenames) |-> make_s3_prefix_from_filename(filenames[n].filename).value]

Answered(query, hits) ==
    /\ log' = Append(log, Searched(query, hits))
    /\ result' = Some(KeysOf(KeptHits(hits)))

Asked(query) == Answered(query, Search(index, query))

CalibQuery ==
    /\ call = "calib" /\ pc = "query"
    /\ HasDate(parse_date_obs(frame_metadata.DATE_OBS))
    /\ Asked(RelevanceQuery(arg.obstype, arg.n_frames, frame_metadata,
                            parse_date_obs(frame_metadata.DATE_OBS).value[1]))
    /\ pc' = "returned"
    /\ UNCHANGED <<call, arg, Others>>

----------------------------------------------------------------------------
(* thaw_files *)

Requested(key, out) == [op |-> "restore_object", key |-> key, out |-> out]

\* A tidy-up that removes nothing (mutant).
Tidy_KeepAll(keys, dead) == keys

\* object_keys -= set(dead_references), the iteration order of the rest kept
Tidy(keys, dead) == SelectSeq(keys, LAMBDA k : k \notin Range(dead))

\* restore_object accepts the request.
ThawRequest ==
    /\ call = "thaw" /\ pc = "sweep" /\ idx <= Len(object_keys)
    /\ LET object_key == object_keys[idx]
       IN  /\ RestoreOutcome(storage[object_key]) = "ok"
           /\ log' = Append(log, Requested(object_key, "ok"))
           /\ storage' = [storage EXCEPT ![object_key] =
                              IF @ = "archived" THEN "pending" ELSE @]
    /\ idx' = idx + 1
    /\ UNCHANGED <<call, pc, arg, object_keys, dead_references, restored_objects, index,
                   slept, polled, reported, date_obs_string, result>>

\* restore_object raises, for the object's state or for another reason.
ThawRequestFails ==
    /\ call = "thaw" /\ pc = "sweep" /\ idx <= Len(object_keys)
    /\ LET object_key == object_keys[idx]
       IN  \E code \in ({RestoreOutcome(storage[object_key])} \ {"ok"}) \cup OtherFailures :
              /\ log' = Append(log, Requested(object_key, code))
              /\ LET todo == Handling(ExcInfoText(code))
                 IN  /\ dead_references' = IF todo = "dead"
                                           THEN Append(dead_references, object_key)
                                           ELSE dead_references
                     /\ pc' = IF todo = "raise" THEN "raised" ELSE pc
                     /\ idx' = IF todo = "raise" THEN idx ELSE idx + 1
    /\ UNCHANGED <<call, arg, object_keys, restored_objects, storage, index,
                   slept, polled, reported, date_obs_string, result>>

\* The sweep is over: the dead references leave the set.
ThawTidy ==
    /\ call = "thaw" /\ pc = "sweep" /\ idx > Len(object_keys)
    /\ object_keys' = Tidy(object_keys, dead_references)
    /\ pc' = "returned"
    /\ UNCHANGED <<call, arg, idx, dead_references, restored_objects, storage, index, log,
                   slept, polled, reported, date_obs_string, result>>

----------------------------------------------------------------------------
(* wait_for_files_to_thaw *)

\* len(restored_objects) < len(object_keys)
StillWaiting(restored, keys) == Len(restored) < Len(keys)

WaitTest ==
    /\ call = "wait" /\ pc = "while"
    /\ IF StillWaiting(restored_objects, object_keys)
       THEN pc' = "for" /\ idx' = 1
       ELSE pc' = "returned" /\ idx' = idx
    /\ polled' = None
    /\ UNCHANGED <<call, arg, object_keys, dead_references, restored_objects, storage,
                   index, log, slept, reported, date_obs_string, result>>

\* A key already in restored_objects is passed over.
WaitSkip ==
    /\ call = "wait" /\ pc = "for" /\ idx <= Len(object_keys)
    /\ object_keys[idx] \in Range(restored_objects)
    /\ idx' = idx + 1
    /\ polled' = None
    /\ UNCHANGED <<call, pc, arg, object_keys, dead_references, restored_objects, storage,
                   index, log, slept, reported, date_obs_string, result>>

\* head_object on a key not yet in restored_objects.
WaitHead ==
    /\ call = "wait" /\ pc = "for" /\ idx <= Len(object_keys)
    /\ LET object_key == object_keys[idx]
       IN  /\ object_key \notin Range(restored_objects)
           /\ storage[object_key] # "missing"
           /\ restored_objects' = IF IsRestored(HeadObject(storage[object_key]))
                                  THEN Append(restored_objects, object_key)
                                  ELSE restored_objects
           /\ polled' = Some(object_key)
    /\ idx' = idx + 1
    /\ UNCHANGED <<call, pc, arg, object_keys, dead_references, storage, index, log,
                   slept, reported, date_obs_string, result>>

\* head_object on a key that does not exist raises (404), and nothing catches it.
WaitHeadRaises ==
    /\ call = "wait" /\ pc = "for" /\ idx <= Len(object_keys)
    /\ object_keys[idx] \notin Range(restored_objects)
    /\ storage[object_keys[idx]] = "missing"
    /\ polled' = Some(object_keys[idx])
    /\ pc' = "raised"
    /\ UNCHANGED <<call, arg, object_keys, idx, dead_references, restored_objects, storage,
                   index, log, slept, reported, date_obs_string, result>>

\* The sweep is over: the count left is printed.
WaitPrint ==
    /\ call = "wait" /\ pc = "for" /\ idx > Len(object_keys)
    /\ reported' = Some(Len(object_keys) - Len(restored_objects))
    /\ polled' = None
    /\ pc' = "sleep"
    /\ UNCHANGED <<call, arg, object_keys, idx, dead_references, restored_objects, storage,
                   index, log, slept, date_obs_string, result>>

\* time.sleep(300), then the loop test again.
WaitSleep ==
    /\ call = "wait" /\ pc = "sleep"
    /\ slept' = TRUE
    /\ pc' = "while"
    /\ UNCHANGED <<call, arg, object_keys, idx, dead_references, restored_objects, storage,
                   index, log, polled, reported, date_obs_string, result>>

\* S3 finishes the restore of an object while the waiter runs.
RestoreCompletes ==
    /\ call = "wait" /\ pc \in {"while", "for", "sleep"}
    /\ \E k \in Range(object_keys) :
          /\ storage[k] = "pending"
          /\ storage' = [storage EXCEPT ![k] = "restored"]
    /\ UNCHANGED <<call, pc, arg, object_keys, idx, dead_references, restored_objects,
                   index, log, slept, polled, reported, date_obs_string, result>>

----------------------------------------------------------------------------
(* download_thawed_files, and the script body *)

FileOp(op, key, path, out) == [op |-> op, key |-> key, path |-> path, out |-> out]

BaseDir == IF call = "main" THEN arg.output_dir ELSE arg.base_dir

\* The script body calls download_thawed_files on the names of the frame list.
Main ==
    /\ call = "main" /\ pc = "main"
    /\ object_keys' = arg.files_to_restore
    /\ idx' = 1
    /\ pc' = "makedirs"
    /\ UNCHANGED <<call, arg, dead_references, restored_objects, storage, index, log,
                   slept, polled, reported, date_obs_string, result>>

\* os.makedirs(..., exist_ok=True)
DownloadMakedirs ==
    /\ call \in {"download", "main"} /\ pc = "makedirs" /\ idx <= Len(object_keys)
    /\ log' = Append(log, FileOp("makedirs", object_keys[idx],
                                 PathJoin(BaseDir, Dirname(object_keys[idx])), "ok"))
    /\ pc' = "download_file"
    /\ UNCHANGED <<call, arg, result, Others>>

\* os.makedirs raises (no permission, a file in the way): it is outside the try.
DownloadMakedirsRaises ==
    /\ call \in {"download", "main"} /\ pc = "makedirs" /\ idx <= Len(object_keys)
    /\ log' = Append(log, FileOp("makedirs", object_keys[idx],
                                 PathJoin(BaseDir, Dirname(object_keys[idx])), "OSError"))
    /\ pc' = "raised"
    /\ UNCHANGED <<call, arg, result, Others>>

\* s3.download_file succeeds: the object is there and restored.
DownloadFile ==
    /\ call \in {"download", "main"} /\ pc = "download_file"
    /\ storage[object_keys[idx]] = "restored"
    /\ log' = Append(log, FileOp("download_file", object_keys[idx],
                                 PathJoin(BaseDir, object_keys[idx]), "ok"))
    /\ idx' = idx + 1
    /\ pc' = "makedirs"
    /\ UNCHANGED <<call, arg, object_keys, dead_references, restored_objects, storage,
                   index, slept, polled, reported, date_obs_string, result>>

\* s3.download_file raises: caught, the key is skipped.
DownloadFileFails ==
    /\ call \in {"download", "main"} /\ pc = "download_file"
    /\ log' = Append(log, FileOp("download_file", object_keys[idx],
                                 PathJoin(BaseDir, object_keys[idx]), "skipped"))
    /\ idx' = idx + 1
    /\ pc' = "makedirs"
    /\ UNCHANGED <<call, arg, object_keys, dead_references, restored_objects, storage,
                   index, slept, polled, reported, date_obs_string, result>>

DownloadReturn ==
    /\ call \in {"download", "main"} /\ pc = "makedirs" /\ idx > Len(object_keys)
    /\ pc' = "returned"
    /\ UNCHANGED <<call, arg, log, result, Others>>

----------------------------------------------------------------------------

\* The steps of the waiter.
Waiter ==
    \/ WaitTest
    \/ WaitSkip
    \/ WaitHead
    \/ WaitHeadRaises
    \/ WaitPrint
    \/ WaitSleep

\* The steps of the script.
Program ==
    \/ PrefixCall
    \/ PrefixRaises
    \/ DateNotApplicable
    \/ DateOnly
    \/ DatePad
    \/ DateParse
    \/ DateParseRaises
    \/ CalibNoMetadata
    \/ CalibMetadata
    \/ CalibDateRaises
    \/ CalibQuery
    \/ ThawRequest
    \/ ThawRequestFails
    \/ ThawTidy
    \/ Waiter
    \/ Main
    \/ DownloadMakedirs
    \/ DownloadMakedirsRaises
    \/ DownloadFile
    \/ DownloadFileFails
    \/ DownloadReturn

Next == Program \/ RestoreCompletes

Spec == Init /\ [][Next]_vars

\* The script is one thread that runs until it returns or raises: the waiter
\* always takes its next step (a head_object answers, a sleep ends).
FairSpec == Init /\ [][Next]_vars /\ WF_vars(Waiter)

----------------------------------------------------------------------------
(* thaw_files: the claims. *)

\* The positions of the log at which restore_object was asked for key k.
RequestsFor(k) == {n \in DOMAIN log : log[n].op = "restore_object" /\ log[n].key = k}

\* The keys of the call that S3 held, with no restore under way, when it was made.
ValidKeys == {k \in Range(arg.object_keys) : arg.at_call[k] \in {"archived", "restored"}}

\* One key of the set does not exist, and the restore of every other succeeds.
OneDeadRestValid ==
    /\ Cardinality({k \in Range(arg.object_keys) : arg.at_call[k] = "missing"}) = 1
    /\ \A k \in Range(arg.object_keys) : arg.at_call[k] \in {"missing", "archived", "restored"}
    /\ \A n \in DOMAIN log : log[n].out \in {"ok", "NoSuchKey"}

\* C1: when thaw_files returns from a set of one nonexistent key and N keys whose
\* restore succeeds, each of the N keys got exactly one restore request, and the set
\* holds exactly the N keys, wherever the nonexistent key came in the iteration.
C1_ThawDropsOnlyDeadKey ==
    (call = "thaw" /\ pc = "returned" /\ OneDeadRestValid) =>
        /\ \A k \in ValidKeys :
              /\ Cardinality(RequestsFor(k)) = 1
              /\ \A n \in RequestsFor(k) : log[n].out = "ok"
        /\ Range(object_keys) = ValidKeys
        /\ Len(object_keys) = Cardinality(ValidKeys)

\* thaw_files has returned from such a set with two valid keys, the dead key
\* between them in the iteration.
C1_Witness ==
    /\ call = "thaw" /\ pc = "returned" /\ OneDeadRestValid
    /\ Len(arg.object_keys) = 3
    /\ arg.at_call[arg.object_keys[2]] = "missing"
    /\ Len(object_keys) = 2

\* C2: a restore request that fails with anything but NoSuchKey or
\* RestoreAlreadyInProgress ends thaw_files at once: it is the last request made,
\* thaw_files has raised and never returns; a RestoreAlreadyInProgress leaves the
\* key in the set, and the sweep goes on: the requests follow the iteration order,
\* one per key, and reach every key when thaw_files returns.
C2_OtherFailureAborts ==
    call = "thaw" =>
        /\ \A n \in DOMAIN log :
              log[n].out \notin {"ok", "NoSuchKey", "RestoreAlreadyInProgress"} =>
                  n = Len(log) /\ pc = "raised"
        /\ pc = "raised" =>
              /\ Len(log) > 0
              /\ log[Len(log)].out \notin {"ok", "NoSuchKey", "RestoreAlreadyInProgress"}
        /\ \A n \in DOMAIN log :
              /\ n <= Len(arg.object_keys)
              /\ log[n].key = arg.object_keys[n]
              /\ log[n].out = "RestoreAlreadyInProgress" =>
                    /\ log[n].key \in Range(object_keys)
                    /\ (pc = "sweep" => idx > n)
        /\ pc = "returned" => Len(log) = Len(arg.object_keys)

\* thaw_files has raised on the second key of three, after a restore already in
\* progress on the first; the third key was never asked for.
C2_Witness ==
    /\ call = "thaw" /\ pc = "raised"
    /\ Len(arg.object_keys) = 3
    /\ Len(log) = 2
    /\ log[1].out = "RestoreAlreadyInProgress"
    /\ log[2].out = "AccessDenied"

----------------------------------------------------------------------------
(* wait_for_files_to_thaw: the claims. *)

\* C3: wait_for_files_to_thaw has returned only if every key of object_keys is
\* restored in storage: none is pending, and none is without a Restore flag.
C3_ReturnsOnlyWhenAllRestored ==
    (call = "wait" /\ pc = "returned") =>
        \A k \in Range(object_keys) : storage[k] = "restored"

\* The waiter has returned from three keys, after at least one sleep.
C3_Witness ==
    /\ call = "wait" /\ pc = "returned"
    /\ Len(object_keys) = 3
    /\ \E k \in Range(object_keys) : arg.at_call[k] = "pending"
    /\ slept

\* Every key of the call was restored when the call was made.
PreRestored == \A k \in Range(arg.object_keys) : arg.at_call[k] = "restored"

\* C4: given keys that are all restored when wait_for_files_to_thaw is called, no
\* sleep occurs between the call and the return.
C4_PreRestoredNeverSleeps ==
    (call = "wait" /\ PreRestored) => ~slept

\* Every key of the call is restored in storage.
AllRestored == \A k \in Range(object_keys) : storage[k] = "restored"

\* A step of the waiter in which head_object was called (on the key polled').
Polls == polled' # None /\ (idx' # idx \/ pc' # pc)

\* C10: for any collection of keys, a set or a list with a repeated key, once
\* storage reports every key restored the poll loop terminates; a key recorded as
\* restored is not polled again, the keys recorded are distinct keys of the
\* collection, and the count reported does not increase.
C10_WaiterConverges ==
    /\ []((call = "wait") =>
            /\ NoRepeats(restored_objects)
            /\ Range(restored_objects) \subseteq Range(object_keys))
    /\ [][Polls => polled'[1] \notin Range(restored_objects)]_vars
    /\ [][(reported # None /\ reported' # None) => reported'[1] <= reported[1]]_vars
    /\ ((call = "wait" /\ AllRestored) ~> (pc = "returned"))

\* The same of the collections in which no key is repeated.
WaiterConvergesWithoutRepeats ==
    /\ []((call = "wait") =>
            /\ NoRepeats(restored_objects)
            /\ Range(restored_objects) \subseteq Range(object_keys))
    /\ [][Polls => polled'[1] \notin Range(restored_objects)]_vars
    /\ [][(reported # None /\ reported' # None) => reported'[1] <= reported[1]]_vars
    /\ ((call = "wait" /\ NoRepeats(object_keys) /\ AllRestored) ~> (pc = "returned"))

----------------------------------------------------------------------------
(* download_thawed_files and the script body: the claims. *)

\* The keys download_file was called on, in the order of the calls.
DownloadAttempts ==
    LET calls == SelectSeq(log, LAMBDA e : e.op = "download_file")
    IN  [n \in 1..Len(calls) |-> calls[n].key]

\* C5: whatever fails on a key, creating its directory or downloading it,
\* download_thawed_files goes on to return normally, having attempted the download
\* of every key of the list once, in list order.
C5_EveryKeyAttempted ==
    call = "download" =>
        /\ pc # "raised"
        /\ pc = "returned" => DownloadAttempts = arg.object_keys

\* The key of a frame name under the standard layout.
KeyOf(filename) == make_s3_prefix_from_filename(filename).value

\* C6: the script downloads a key only after it resolved the key from a name of
\* the frame list, asked for its restore and saw it restored; and when the script
\* returns, every frame of the list was downloaded to {output-dir}/{object key}.
C6_PipelineInOrder ==
    call = "main" =>
        /\ \A n \in DOMAIN log :
              log[n].op = "download_file" =>
                  /\ \E m \in DOMAIN arg.files_to_restore :
                        log[n].key = KeyOf(arg.files_to_restore[m])
                  /\ \E m \in 1..(n - 1) :
                        log[m].op = "restore_object" /\ log[m].key = log[n].key
                  /\ log[n].key \in Range(restored_objects)
        /\ pc = "returned" =>
              \A m \in DOMAIN arg.files_to_restore :
                  \E n \in DOMAIN log :
                      /\ log[n].op = "download_file" /\ log[n].out = "ok"
                      /\ log[n].path = PathJoin(arg.output_dir, KeyOf(arg.files_to_restore[m]))

----------------------------------------------------------------------------
(* get_nearest_calibration_frames: the claim. *)

\* The records of the index whose filename the scrubbed name of the target matches.
TargetHits ==
    {n \in 1..Len(index) : MatchPhrase(index[n].filename, ScrubbedFilename(arg.filename))}

\* The target frame's record: the first of them.
Target == index[CHOOSE n \in TargetHits : \A m \in TargetHits : n <= m]

\* The exact-match filters, on a record.
SatisfiesFilters(rec) ==
    /\ rec.OBSTYPE = arg.obstype
    /\ rec.SITEID = Target.SITEID
    /\ rec.INSTRUME = Target.INSTRUME
    /\ arg.obstype = "SKYFLAT" => rec.FILTER = Target.FILTER

\* keys are the keys of some of the hits, in the order of the hits, each of a hit
\* that satisfies the filters and has '00.fits' in its filename.
DerivedInOrder(keys, hits) ==
    \E f \in [1..Len(keys) -> 1..Len(hits)] :
        /\ \A a, b \in 1..Len(keys) : a < b => f[a] < f[b]
        /\ \A n \in 1..Len(keys) :
              /\ keys[n] = KeyOf(hits[f[n]].filename)
              /\ Contains("00.fits", hits[f[n]].filename)
              /\ hits[f[n]] \in Range(index)
              /\ SatisfiesFilters(hits[f[n]])

\* C7: get_nearest_calibration_frames returns, in the index's ranking order and at
\* most n_frames of them, keys of index hits that satisfy the exact-match filters
\* (FILTER only for SKYFLAT) and have '00.fits' in their filename; when the target
\* has no metadata record it returns the empty list and asks no relevance query.
C7_CalibrationFramesFiltered ==
    (call = "calib" /\ pc = "returned") =>
        IF TargetHits = {}
        THEN /\ result = Some(<<>>)
             /\ Len(log) = 1
             /\ log[1].query.origin = None
        ELSE /\ Len(log) = 2
             /\ log[2].query.origin # None
             /\ Len(result[1]) <= arg.n_frames
             /\ DerivedInOrder(result[1], log[2].hits)

\* A SKYFLAT search over the whole pool has returned: of the two nearest hits one
\* is kept, the other is not a '00.fits' frame; a nearer SKYFLAT in another filter
\* band is in the index.
C7_Witness ==
    /\ call = "calib" /\ pc = "returned"
    /\ arg.obstype = "SKYFLAT" /\ arg.n_frames = 2
    /\ Len(index) = Len(IndexPool)
    /\ Len(log) = 2 /\ Len(log[2].hits) = 2
    /\ result = Some(<<"coj/kb24/20200101/raw/coj0m405-kb24-20200101-0008-00.fits.fz">>)

----------------------------------------------------------------------------
(* make_s3_prefix_from_filename: the claim. *)

\* C8: for a name of the standard layout, the key ends in one '.fits.fz' suffix, is
\* {site}/{instrument}/{dayobs}/raw/{name}.fits.fz, is the same for the '.fits' and
\* the '.fits.fz' form of the name, and normalizing the normalized name again
\* changes nothing.
C8_KeyInsensitiveToCompression ==
    (call = "prefix" /\ arg.stem \in Stems) =>
        /\ pc # "raised"
        /\ pc = "returned" =>
              /\ result[1].fits = result[1].fz
              /\ EndsWith(result[1].fits, ".fits.fz")
              /\ ~EndsWith(result[1].fits, ".fz.fz")
              /\ Cardinality(Occurrences(result[1].fits, ".fits.fz")) = 1
              /\ result[1].fits = SubSeq(arg.stem, 1, 3) \o "/" \o Split(arg.stem, "-")[2]
                                  \o "/" \o Split(arg.stem, "-")[3] \o "/raw/"
                                  \o arg.stem \o ".fits.fz"
              /\ result[1].again = Basename(result[1].fits)

\* The key of the frame of the end-to-end scenario has been made.
C8_Witness ==
    /\ call = "prefix" /\ pc = "returned"
    /\ arg.stem = "coj0m405-kb24-20200101-0001-00"
    /\ result[1].fz = "coj/kb24/20200101/raw/coj0m405-kb24-20200101-0001-00.fits.fz"

----------------------------------------------------------------------------
(* parse_date_obs: the claim. *)

\* The fractional digits of a timestamp: what follows its first '.'.
FractionOf(text) == IF Len(Split(text, ".")) > 1 THEN Split(text, ".")[2] ELSE ""

HasTime == Contains("T", arg.date_obs_string)

\* 'N/A' gives None; a date alone gives midnight, no fractional seconds.
DateWithoutTime ==
    /\ arg.date_obs_string = "N/A" => (pc \in {"start", "returned"} /\ result = None)
    /\ (arg.date_obs_string # "N/A" /\ ~HasTime) =>
          /\ pc \in {"start", "returned"}
          /\ pc = "returned" =>
                /\ result # None
                /\ result[1].year = ToInt(Split(arg.date_obs_string, "-")[1])
                /\ result[1].month = ToInt(Split(arg.date_obs_string, "-")[2])
                /\ result[1].day = ToInt(Split(arg.date_obs_string, "-")[3])
                /\ result[1].hour = 0 /\ result[1].minute = 0
                /\ result[1].second = 0 /\ result[1].microsecond = 0

\* The string strptime gets carries six fractional digits: the digits given, then
\* zeros.
PaddedToMicroseconds ==
    /\ Len(FractionOf(date_obs_string)) = MicrosecondDigits
    /\ Len(Split(date_obs_string, ".")) = 2
    /\ FractionOf(date_obs_string)
         = FractionOf(arg.date_obs_string)
           \o Zeros(MicrosecondDigits - Len(FractionOf(arg.date_obs_string)))

\* C9, as stated: ... and a date with a time reaches strptime with exactly six
\* fractional digits, the given ones then zeros, however many digits it came with.
C9_AlwaysSixDigits ==
    call = "date" =>
        /\ DateWithoutTime
        /\ (HasTime /\ pc # "start") => PaddedToMicroseconds

\* C9, amended: ... with six fractional digits, the given ones then zeros, when it
\* came with at most six, and then parse_date_obs returns that time; a date that
\* came with more reaches strptime as it came, and parse_date_obs raises.
C9_SixDigitsUpToSix ==
    call = "date" =>
        /\ DateWithoutTime
        /\ (HasTime /\ pc # "start"
                /\ Len(FractionOf(arg.date_obs_string)) <= MicrosecondDigits) =>
              /\ PaddedToMicroseconds
              /\ pc \in {"strptime", "returned"}
              /\ pc = "returned" =>
                    /\ result # None
                    /\ result[1].microsecond = ToInt(FractionOf(date_obs_string))
        /\ (HasTime /\ pc # "start"
                /\ Len(FractionOf(arg.date_obs_string)) > MicrosecondDigits) =>
              /\ date_obs_string = arg.date_obs_string
              /\ pc \in {"strptime", "raised"}

\* '2020-01-01T10:30:00.5' has been parsed: 500000 microseconds.
C9_Witness ==
    /\ call = "date" /\ pc = "returned"
    /\ arg.date_obs_string = "2020-01-01T10:30:00.5"
    /\ date_obs_string = "2020-01-01T10:30:00.500000"
    /\ result[1].microsecond = 500000

====
